---- MODULE Spec2Model ----
(***************************************************************************)
(* Model of experiments/7232020_disk: the ensemble driver run.py (main,    *)
(* train, evaluate_once) and the dataset loader csv_loader.py (CSVDataset).*)
(*                                                                         *)
(* Spec         : one run of main() for every command line in the bounds.  *)
(* SpecNetwork  : the runs of Spec that train a single network.            *)
(* SpecEnsemble : the runs of Spec with one batch per call of train().     *)
(* SpecCSV      : one construction of CSVDataset for every file in the     *)
(*                bounds.                                                  *)
(***************************************************************************)
EXTENDS Integers, Sequences, FiniteSets, TLC

\* ---------------------------------------------------------------- bounds
MaxIterations == 2      \* --iterations ranges over 0..MaxIterations
MaxEpochs     == 2      \* --epochs ranges over 1..MaxEpochs
MaxN          == 2      \* number of samples of the dataset, 1..MaxN
MaxBatchSize  == 2      \* --batch-size ranges over 1..MaxBatchSize
MaxThresholds == 2      \* length of a --training_threshold list
MaxLayers     == 2      \* layers of a landscape
MaxDims       == 2      \* homology dimensions per layer
MaxRows       == 3      \* rows of a CSV file, header included
MaxCols       == 2      \* cells of a CSV row

\* ------------------------------------------------------------ float values
\* A float given on the command line: math.inf, or a finite value kept in
\* hundredths (0.0 is 0, 1.0 is 100).
Inf == [inf |-> TRUE, pct |-> 0]

Finite(p) == [inf |-> FALSE, pct |-> p]

ThresholdValues == {Finite(0), Finite(100), Inf}

\* correct/data.shape[0] of evaluate_once, kept as the exact ratio.
Ratio(c, t) == [correct |-> c, total |-> t]

NoAcc == Ratio(0, 1)

\* Variants of the comparison of run.py 26: acc > threshold, acc <= threshold.
AccGT(acc, threshold) ==
    /\ ~threshold.inf
    /\ acc.correct * 100 > threshold.pct * acc.total

AccLE(acc, threshold) ==
    \/ threshold.inf
    \/ acc.correct * 100 <= threshold.pct * acc.total

\* run.py 26: acc >= threshold, on floats: no finite accuracy reaches
\* math.inf.
AccGE(acc, threshold) ==
    /\ ~threshold.inf
    /\ acc.correct * 100 >= threshold.pct * acc.total

\* ------------------------------------------------------------ command line
\* args.training_threshold: argparse gives the default math.inf itself (a
\* float) when the option is absent, and a list of one or more floats when it
\* is given (nargs='+').
SeqsUpTo(S, n) == UNION {[1..k -> S] : k \in 1..n}

TrainingThresholdArgs ==
    {[islist |-> FALSE, items |-> <<Inf>>]}
        \cup {[islist |-> TRUE, items |-> s] : s \in SeqsUpTo(ThresholdValues, MaxThresholds)}

Args ==
    [iterations         : 0..MaxIterations,
     epochs             : 1..MaxEpochs,
     batch_size         : 1..MaxBatchSize,
     data_samples       : 1..MaxN,
     training_threshold : TrainingThresholdArgs,
     n                  : 1..MaxLayers,
     maxdim             : 1..MaxDims,
     save_csv           : BOOLEAN]

VARIABLES
    args,                   \* parsed command line
    dataset,                \* sample indices of CSVDataset(args.csv_file)
    pc,                     \* position in main() / train()
    error,                  \* the exception that ended main(), "" if none
    dataset2,               \* second part of random_split
    train_loader,           \* samples the training loader draws from
    evaluation_loader,      \* samples the evaluation loader draws from
    landscape_loader,       \* samples the landscape loader draws from
    landscapes_per_network, \* list of landscapes, one per network
    it,                     \* loop variable of main
    epoch,                  \* loop variable of the epoch loop
    model,                  \* the network of this iteration
    training_threshold,     \* threshold resolved for this iteration
    batches,                \* the training iterator: samples not yet drawn
    data,                   \* current training batch
    eval_data,              \* current evaluation batch
    acc,                    \* train(): accuracy of evaluate_once on eval_data
    batch,                  \* train(): what has happened to its latest batch
    land_data,              \* batch drawn from landscape_loader
    landscape_averages,     \* result of average_across_networks
    files,                  \* names of the CSV files written
    blob,                   \* TRUE once the pickle file is written
    csv_file,               \* CSVDataset.__init__: the rows of the file
    csv_data,               \* CSVDataset.__init__: list(csv.reader(csvfile))
    csv_i,                  \* CSVDataset.__init__: outer loop index
    csv_pc,                 \* CSVDataset.__init__: position
    csv_error,              \* CSVDataset.__init__: the exception raised, "" if none
    csv_tensor              \* CSVDataset.__init__: self.csv_tensor

mainVars ==
    <<args, dataset, pc, error, dataset2, train_loader, evaluation_loader,
      landscape_loader, landscapes_per_network, it, epoch, model,
      training_threshold, batches, data, eval_data, acc, batch, land_data,
      landscape_averages, files, blob>>

csvVars == <<csv_file, csv_data, csv_i, csv_pc, csv_error, csv_tensor>>

vars == <<mainVars, csvVars>>

\* ------------------------------------------------------------------ model
\* Net() is a black box: `fit` is the set of samples its current parameters
\* classify correctly, `steps` the number of optimizer updates its parameters
\* have received, `training` the nn.Module flag set by train()/eval(), and
\* `stopped` records that the early-stop check has fired for it.
NewModel(fit) == [training |-> TRUE, fit |-> fit, steps |-> 0, stopped |-> FALSE]

NoModel == NewModel({})

NoBatch == [idx |-> 0, evaluated |-> FALSE, eval_training |-> FALSE, steps |-> 0, returned |-> FALSE]

Min(a, b) == IF a < b THEN a ELSE b

\* One batch of a shuffled loader: `size` of the samples left, or all of
\* them when fewer are left (drop_last is False).
DrawBatch(left, size) == {b \in SUBSET left : Cardinality(b) = Min(size, Cardinality(left))}

\* self.csv_tensor before it is assigned, and once it is.
NoTensor == [set |-> FALSE, rows |-> <<>>]

Tensor(rows) == [set |-> TRUE, rows |-> rows]

\* No CSVDataset is under construction.
CsvIdle ==
    /\ csv_file = <<>>
    /\ csv_data = <<>>
    /\ csv_i = 0
    /\ csv_pc = "idle"
    /\ csv_error = ""
    /\ csv_tensor = NoTensor

\* main() has not read anything but its command line.
MainAt(position) ==
    /\ pc = position
    /\ error = ""
    /\ dataset2 = {}
    /\ train_loader = {}
    /\ evaluation_loader = {}
    /\ landscape_loader = {}
    /\ landscapes_per_network = <<>>
    /\ it = 0
    /\ epoch = 0
    /\ model = NoModel
    /\ training_threshold = Inf
    /\ batches = {}
    /\ data = {}
    /\ eval_data = {}
    /\ acc = NoAcc
    /\ batch = NoBatch
    /\ land_data = {}
    /\ landscape_averages = <<>>
    /\ files = {}
    /\ blob = FALSE

\* main() after parse_args: a dataset of 1..MaxN samples has been named and
\* --data_samples is between 1 and its length.
Init ==
    /\ args \in Args
    /\ dataset \in {0..(k - 1) : k \in 1..MaxN}
    /\ args.data_samples <= Cardinality(dataset)
    /\ MainAt("main")
    /\ CsvIdle

\* ------------------------------------------------------------------- main
\* run.py 109-117: the dataset is loaded, split at random into
\* len-data_samples and data_samples samples, and the three loaders are
\* built.
RandomSplit(ds, lengths) ==
    {<<ds \ second, second>> : second \in {s \in SUBSET ds : Cardinality(s) = lengths[2]}}

Setup ==
    /\ pc = "main"
    /\ \E split \in RandomSplit(dataset, <<Cardinality(dataset) - args.data_samples, args.data_samples>>) :
          /\ dataset2' = split[2]
          /\ train_loader' = dataset
          /\ evaluation_loader' = dataset
          /\ landscape_loader' = split[2]
    /\ landscapes_per_network' = <<>>
    /\ it' = 0
    /\ pc' = "loop"
    /\ UNCHANGED <<args, dataset, error, epoch, model, training_threshold, batches,
                   data, eval_data, acc, batch, land_data, landscape_averages,
                   files, blob, csvVars>>

\* run.py 120-126: the next iteration starts with a fresh network, which
\* has seen no batch yet.
LoopIter ==
    /\ pc = "loop"
    /\ it < args.iterations
    /\ \E fit \in SUBSET dataset : model' = NewModel(fit)
    /\ acc' = NoAcc
    /\ batch' = NoBatch
    /\ pc' = "resolve"
    /\ UNCHANGED <<args, dataset, error, dataset2, train_loader, evaluation_loader,
                   landscape_loader, landscapes_per_network, it, epoch,
                   training_threshold, batches, data, eval_data,
                   land_data, landscape_averages, files, blob, csvVars>>

\* run.py 120: range(args.iterations) is exhausted.
LoopExit ==
    /\ pc = "loop"
    /\ it >= args.iterations
    /\ pc' = "average"
    /\ UNCHANGED <<args, dataset, error, dataset2, train_loader, evaluation_loader,
                   landscape_loader, landscapes_per_network, it, epoch, model,
                   training_threshold, batches, data, eval_data, acc, batch,
                   land_data, landscape_averages, files, blob, csvVars>>

\* run.py 127: len() of a float raises TypeError.
HasLen(tt) == tt.islist

\* run.py 127: tt[-1] if i >= len(tt) else tt[i], on a list.
ThresholdFor(tt, i) ==
    IF i >= Len(tt.items) THEN tt.items[Len(tt.items)] ELSE tt.items[i + 1]

Resolve ==
    /\ pc = "resolve"
    /\ HasLen(args.training_threshold)
    /\ training_threshold' = ThresholdFor(args.training_threshold, it)
    /\ epoch' = 1
    /\ pc' = "epoch"
    /\ UNCHANGED <<args, dataset, error, dataset2, train_loader, evaluation_loader,
                   landscape_loader, landscapes_per_network, it, model, batches,
                   data, eval_data, acc, batch, land_data, landscape_averages,
                   files, blob, csvVars>>

ResolveTypeError ==
    /\ pc = "resolve"
    /\ ~HasLen(args.training_threshold)
    /\ error' = "TypeError"
    /\ pc' = "error"
    /\ UNCHANGED <<args, dataset, dataset2, train_loader, evaluation_loader,
                   landscape_loader, landscapes_per_network, it, epoch, model,
                   training_threshold, batches, data, eval_data, acc, batch,
                   land_data, landscape_averages, files, blob, csvVars>>

\* run.py 128-129, 17-18: the next epoch calls train(), which puts the
\* model in training mode and starts a shuffled pass over train_loader.
EpochLoop ==
    /\ pc = "epoch"
    /\ epoch <= args.epochs
    /\ model' = [model EXCEPT !.training = TRUE]
    /\ batches' = train_loader
    /\ batch' = NoBatch
    /\ pc' = "batch"
    /\ UNCHANGED <<args, dataset, error, dataset2, train_loader, evaluation_loader,
                   landscape_loader, landscapes_per_network, it, epoch,
                   training_threshold, data, eval_data, acc, land_data,
                   landscape_averages, files, blob, csvVars>>

\* run.py 128: range(1, args.epochs + 1) is exhausted.
EpochExit ==
    /\ pc = "epoch"
    /\ epoch > args.epochs
    /\ pc' = "landscape"
    /\ UNCHANGED <<args, dataset, error, dataset2, train_loader, evaluation_loader,
                   landscape_loader, landscapes_per_network, it, epoch, model,
                   training_threshold, batches, data, eval_data, acc, batch,
                   land_data, landscape_averages, files, blob, csvVars>>

\* ------------------------------------------------------------------ train
\* run.py 18-22: the next batch is drawn; zero_grad, forward pass and loss.
TrainBatch ==
    /\ pc = "batch"
    /\ batches # {}
    /\ \E b \in DrawBatch(batches, args.batch_size) :
          /\ data' = b
          /\ batches' = batches \ b
    /\ batch' = [NoBatch EXCEPT !.idx = batch.idx + 1]
    /\ pc' = "eval"
    /\ UNCHANGED <<args, dataset, error, dataset2, train_loader, evaluation_loader,
                   landscape_loader, landscapes_per_network, it, epoch, model,
                   training_threshold, eval_data, acc, land_data,
                   landscape_averages, files, blob, csvVars>>

\* run.py 18, 130: the loader is exhausted, train() returns (its locals are
\* gone) and main steps the scheduler.
TrainExhausted ==
    /\ pc = "batch"
    /\ batches = {}
    /\ data' = {}
    /\ eval_data' = {}
    /\ epoch' = epoch + 1
    /\ pc' = "epoch"
    /\ UNCHANGED <<args, dataset, error, dataset2, train_loader, evaluation_loader,
                   landscape_loader, landscapes_per_network, it, model,
                   training_threshold, batches, acc, batch,
                   land_data, landscape_averages, files, blob, csvVars>>

\* run.py 33-39: fraction of the batch the model classifies correctly.
evaluate_once(m, d) == Ratio(Cardinality(d \cap m.fit), Cardinality(d))

\* run.py 23-24: a fresh iterator over evaluation_loader gives one batch of
\* data_samples samples; evaluate_once runs the model on it as it is.
TrainEval ==
    /\ pc = "eval"
    /\ \E e \in DrawBatch(evaluation_loader, args.data_samples) :
          /\ eval_data' = e
          /\ acc' = evaluate_once(model, e)
    /\ batch' = [batch EXCEPT !.evaluated = TRUE, !.eval_training = model.training]
    /\ pc' = "check"
    /\ UNCHANGED <<args, dataset, error, dataset2, train_loader, evaluation_loader,
                   landscape_loader, landscapes_per_network, it, epoch, model,
                   training_threshold, batches, data, land_data,
                   landscape_averages, files, blob, csvVars>>

\* Variant of run.py 26-28 without the return: the message is printed and
\* the batch goes on to its update.
TrainEarlyStopNoReturn ==
    /\ pc = "check"
    /\ AccGE(acc, training_threshold)
    /\ model' = [model EXCEPT !.stopped = TRUE]
    /\ pc' = "step"
    /\ UNCHANGED <<args, dataset, error, dataset2, train_loader, evaluation_loader,
                   landscape_loader, landscapes_per_network, it, epoch,
                   training_threshold, batches, data, eval_data, acc, batch,
                   land_data, landscape_averages, files, blob, csvVars>>

\* run.py 26-28, 130: the threshold is reached, train() returns (its locals
\* are gone) and main steps the scheduler.
TrainEarlyStop ==
    /\ pc = "check"
    /\ AccGE(acc, training_threshold)
    /\ model' = [model EXCEPT !.stopped = TRUE]
    /\ batch' = [batch EXCEPT !.returned = TRUE]
    /\ batches' = {}
    /\ data' = {}
    /\ eval_data' = {}
    /\ epoch' = epoch + 1
    /\ pc' = "epoch"
    /\ UNCHANGED <<args, dataset, error, dataset2, train_loader, evaluation_loader,
                   landscape_loader, landscapes_per_network, it,
                   training_threshold, acc, land_data,
                   landscape_averages, files, blob, csvVars>>

\* run.py 26: the threshold is not reached.
TrainContinue ==
    /\ pc = "check"
    /\ ~AccGE(acc, training_threshold)
    /\ pc' = "step"
    /\ UNCHANGED <<args, dataset, error, dataset2, train_loader, evaluation_loader,
                   landscape_loader, landscapes_per_network, it, epoch, model,
                   training_threshold, batches, data, eval_data, acc, batch,
                   land_data, landscape_averages, files, blob, csvVars>>

\* run.py 30-31: backward pass and optimizer step; the new parameters
\* classify some set of samples correctly.
TrainStep ==
    /\ pc = "step"
    /\ \E fit \in SUBSET dataset :
          model' = [model EXCEPT !.fit = fit, !.steps = model.steps + 1]
    /\ batch' = [batch EXCEPT !.steps = batch.steps + 1]
    /\ pc' = "batch"
    /\ UNCHANGED <<args, dataset, error, dataset2, train_loader, evaluation_loader,
                   landscape_loader, landscapes_per_network, it, epoch,
                   training_threshold, batches, data, eval_data, acc, land_data,
                   landscape_averages, files, blob, csvVars>>

\* -------------------------------------------------------------- landscapes
\* landscape.landscapes_diagrams_from_model(...)[0]: one curve per requested
\* layer and homology dimension. A curve is kept as the id of the network
\* it was computed from.
landscapes_diagrams_from_model(m, d, maxdim, n, id) ==
    [layer \in 1..n |-> [dim \in 1..maxdim |-> id]]

\* run.py 132-134: one batch of the landscape loader goes through the
\* network and the landscape is appended; the loop variable advances.
Landscape ==
    /\ pc = "landscape"
    /\ \E d \in DrawBatch(landscape_loader, args.data_samples) :
          /\ land_data' = d
          /\ landscapes_per_network' =
                Append(landscapes_per_network,
                       landscapes_diagrams_from_model(model, d, args.maxdim, args.n, it))
    /\ it' = it + 1
    /\ pc' = "loop"
    /\ UNCHANGED <<args, dataset, error, dataset2, train_loader, evaluation_loader,
                   landscape_loader, epoch, model, training_threshold, batches,
                   data, eval_data, acc, batch, landscape_averages, files, blob,
                   csvVars>>

\* Variant of run.py 134 in which the exception is caught and the loop goes
\* on to the next network.
LandscapeRaisesCaught ==
    /\ pc = "landscape"
    /\ \E d \in DrawBatch(landscape_loader, args.data_samples) : land_data' = d
    /\ it' = it + 1
    /\ pc' = "loop"
    /\ UNCHANGED <<args, dataset, error, dataset2, train_loader, evaluation_loader,
                   landscape_loader, landscapes_per_network, epoch, model,
                   training_threshold, batches, data, eval_data, acc, batch,
                   landscape_averages, files, blob, csvVars>>

\* run.py 134: the landscape computation raises; nothing catches it.
LandscapeRaises ==
    /\ pc = "landscape"
    /\ \E d \in DrawBatch(landscape_loader, args.data_samples) : land_data' = d
    /\ error' = "LandscapeError"
    /\ pc' = "error"
    /\ UNCHANGED <<args, dataset, dataset2, train_loader, evaluation_loader,
                   landscape_loader, landscapes_per_network, it, epoch, model,
                   training_threshold, batches, data, eval_data, acc, batch,
                   landscape_averages, files, blob, csvVars>>

\* landscape.average_across_networks: at every (layer, dimension) the curves
\* of all networks are combined into one; the combined curve is kept as the
\* set of networks it averages over. No network gives no layer.
average_across_networks(ls) ==
    IF Len(ls) = 0 THEN <<>>
    ELSE [layer \in 1..Len(ls[1]) |->
            [dim \in 1..Len(ls[1][layer]) |-> {ls[k][layer][dim] : k \in 1..Len(ls)}]]

\* run.py 139.
Average ==
    /\ pc = "average"
    /\ landscape_averages' = average_across_networks(landscapes_per_network)
    /\ pc' = "write_csv"
    /\ UNCHANGED <<args, dataset, error, dataset2, train_loader, evaluation_loader,
                   landscape_loader, landscapes_per_network, it, epoch, model,
                   training_threshold, batches, data, eval_data, acc, batch,
                   land_data, files, blob, csvVars>>

\* '{}'.format(k) of a non-negative int: its decimal digits.
Digit(k) == CASE k = 0 -> "0" [] k = 1 -> "1" [] k = 2 -> "2" [] k = 3 -> "3"
              [] k = 4 -> "4" [] k = 5 -> "5" [] k = 6 -> "6" [] k = 7 -> "7"
              [] k = 8 -> "8" [] k = 9 -> "9"

RECURSIVE Digits(_)
Digits(k) == IF k < 10 THEN <<Digit(k)>> ELSE Digits(k \div 10) \o <<Digit(k % 10)>>

\* run.py 145: './landscapes_csv/layer{}dim{}.csv'.format(layer_id, dim_id).
FileName(layer_id, dim_id) ==
    <<"./landscapes_csv/layer">> \o Digits(layer_id) \o <<"dim">> \o Digits(dim_id) \o <<".csv">>

\* run.py 140-145: one file per enumerated (layer, dim) of the averages.
WriteCsv ==
    /\ pc = "write_csv"
    /\ args.save_csv
    /\ files' = UNION {{FileName(layer - 1, dim - 1) :
                            dim \in 1..Len(landscape_averages[layer])} :
                        layer \in 1..Len(landscape_averages)}
    /\ pc' = "write_blob"
    /\ UNCHANGED <<args, dataset, error, dataset2, train_loader, evaluation_loader,
                   landscape_loader, landscapes_per_network, it, epoch, model,
                   training_threshold, batches, data, eval_data, acc, batch,
                   land_data, landscape_averages, blob, csvVars>>

\* run.py 140: args.save_csv is false.
SkipCsv ==
    /\ pc = "write_csv"
    /\ ~args.save_csv
    /\ pc' = "write_blob"
    /\ UNCHANGED <<args, dataset, error, dataset2, train_loader, evaluation_loader,
                   landscape_loader, landscapes_per_network, it, epoch, model,
                   training_threshold, batches, data, eval_data, acc, batch,
                   land_data, landscape_averages, files, blob, csvVars>>

\* run.py 147-149: --save, read only here, names a file and the averages are
\* pickled to it.
WriteBlob ==
    /\ pc = "write_blob"
    /\ blob' = TRUE
    /\ pc' = "done"
    /\ UNCHANGED <<args, dataset, error, dataset2, train_loader, evaluation_loader,
                   landscape_loader, landscapes_per_network, it, epoch, model,
                   training_threshold, batches, data, eval_data, acc, batch,
                   land_data, landscape_averages, files, csvVars>>

\* run.py 147: --save, read only here, is absent.
SkipBlob ==
    /\ pc = "write_blob"
    /\ pc' = "done"
    /\ UNCHANGED <<args, dataset, error, dataset2, train_loader, evaluation_loader,
                   landscape_loader, landscapes_per_network, it, epoch, model,
                   training_threshold, batches, data, eval_data, acc, batch,
                   land_data, landscape_averages, files, blob, csvVars>>

Next ==
    \/ Setup
    \/ LoopIter
    \/ LoopExit
    \/ Resolve
    \/ ResolveTypeError
    \/ EpochLoop
    \/ EpochExit
    \/ TrainBatch
    \/ TrainExhausted
    \/ TrainEval
    \/ TrainEarlyStop
    \/ TrainContinue
    \/ TrainStep
    \/ Landscape
    \/ LandscapeRaises
    \/ Average
    \/ WriteCsv
    \/ SkipCsv
    \/ WriteBlob
    \/ SkipBlob

Spec == Init /\ [][Next]_vars

\* The runs of main() that train a single network: one iteration, one
\* threshold, one (layer, dimension) pair.
InitNetwork ==
    /\ Init
    /\ args.iterations = 1
    /\ Len(args.training_threshold.items) = 1
    /\ args.n = 1
    /\ args.maxdim = 1

SpecNetwork == InitNetwork /\ [][Next]_vars

\* The runs of main() on a dataset of one sample with one epoch per network:
\* every call of train() sees a single batch.
InitEnsemble ==
    /\ Init
    /\ dataset = {0}
    /\ args.epochs = 1
    /\ args.batch_size = 1

SpecEnsemble == InitEnsemble /\ [][Next]_vars

\* ------------------------------------------------------------- CSVDataset
\* A cell of csv_data: the string csv.reader gives, or the float that
\* replaced it (kept in hundredths).
Str(s) == [str |-> TRUE, s |-> s, f |-> 0]

Float(v) == [str |-> FALSE, s |-> "", f |-> v]

Tokens == {"1", "2.5", "x"}

\* float(s): the strings Python parses, and their values.
IsFloat(s) == s \in {"1", "2.5"}

FloatOf(s) == CASE s = "1" -> 100 [] s = "2.5" -> 250

HeaderRows == UNION {[1..w -> {Str("h")}] : w \in 0..MaxCols}

DataRows == UNION {[1..w -> {Str(t) : t \in Tokens}] : w \in 0..MaxCols}

\* The file is empty, or a header row followed by data rows.
InitCSV ==
    /\ args = [iterations |-> 0, epochs |-> 1, batch_size |-> 1, data_samples |-> 1,
               training_threshold |-> [islist |-> FALSE, items |-> <<Inf>>],
               n |-> 1, maxdim |-> 1, save_csv |-> TRUE]
    /\ dataset = {}
    /\ MainAt("dataset")
    /\ \/ csv_file = <<>>
       \/ \E h \in HeaderRows, k \in 0..(MaxRows - 1) :
             \E d \in [1..k -> DataRows] : csv_file = <<h>> \o d
    /\ csv_data = csv_file
    /\ csv_i = 0
    /\ csv_pc = "loop"
    /\ csv_error = ""
    /\ csv_tensor = NoTensor

\* Variant of csv_loader.py 16-18 that takes a cell float() rejects as 0.0.
ConvertRowLenient(row, w) ==
    [err |-> IF \E j \in 1..w : j > Len(row) THEN "IndexError" ELSE "",
     row |-> [j \in 1..Len(row) |->
                IF j <= w THEN Float(IF IsFloat(row[j].s) THEN FloatOf(row[j].s) ELSE 0)
                ELSE row[j]]]

\* csv_loader.py 16-18 for one row i != 0: cells 0..w-1 are replaced by
\* their floats in order; the first cell that is missing raises IndexError,
\* the first that float() rejects raises ValueError.
ConvertRow(row, w) ==
    LET bad == {j \in 1..w : j > Len(row) \/ ~IsFloat(row[j].s)}
        first == CHOOSE j \in bad : \A k \in bad : j <= k
    IN  IF bad # {}
        THEN [err |-> IF first > Len(row) THEN "IndexError" ELSE "ValueError", row |-> row]
        ELSE [err |-> "",
              row |-> [j \in 1..Len(row) |->
                         IF j <= w THEN Float(FloatOf(row[j].s)) ELSE row[j]]]

\* csv_loader.py 15-18: one pass of the outer loop. len(csv_data[1]) is
\* taken at every pass, row 0 included; row 0 itself is left alone.
CsvRow ==
    /\ csv_pc = "loop"
    /\ csv_i < Len(csv_data)
    /\ Len(csv_data) >= 2
    /\ LET w == Len(csv_data[2])
           r == ConvertRow(csv_data[csv_i + 1], w)
       IN  /\ csv_i # 0 => r.err = ""
           /\ csv_data' = IF csv_i = 0 THEN csv_data
                          ELSE [csv_data EXCEPT ![csv_i + 1] = r.row]
    /\ csv_i' = csv_i + 1
    /\ UNCHANGED <<mainVars, csv_file, csv_pc, csv_error, csv_tensor>>

\* csv_loader.py 16, 18: csv_data[1] does not exist, a cell is missing, or
\* float() rejects a cell; the constructor raises.
CsvRowRaises ==
    /\ csv_pc = "loop"
    /\ csv_i < Len(csv_data)
    /\ IF Len(csv_data) < 2
       THEN csv_error' = "IndexError"
       ELSE /\ csv_i # 0
            /\ ConvertRow(csv_data[csv_i + 1], Len(csv_data[2])).err # ""
            /\ csv_error' = ConvertRow(csv_data[csv_i + 1], Len(csv_data[2])).err
    /\ csv_pc' = "error"
    /\ UNCHANGED <<mainVars, csv_file, csv_data, csv_i, csv_tensor>>

\* torch.tensor(rows) takes a list of equally long lists of numbers.
Rectangular(rows) ==
    /\ \A a, b \in 1..Len(rows) : Len(rows[a]) = Len(rows[b])
    /\ \A a \in 1..Len(rows) : \A j \in 1..Len(rows[a]) : ~rows[a][j].str

\* csv_data[1:]
DataOf(rows) == SubSeq(rows, 2, Len(rows))

\* csv_loader.py 19: the rows after the header become the tensor.
CsvTensor ==
    /\ csv_pc = "loop"
    /\ csv_i >= Len(csv_data)
    /\ Rectangular(DataOf(csv_data))
    /\ csv_tensor' = Tensor([a \in 1..Len(DataOf(csv_data)) |->
                               [j \in 1..Len(DataOf(csv_data)[a]) |-> DataOf(csv_data)[a][j].f]])
    /\ csv_pc' = "done"
    /\ UNCHANGED <<mainVars, csv_file, csv_data, csv_i, csv_error>>

\* csv_loader.py 19: torch.tensor rejects ragged rows and strings.
CsvTensorRaises ==
    /\ csv_pc = "loop"
    /\ csv_i >= Len(csv_data)
    /\ ~Rectangular(DataOf(csv_data))
    /\ csv_error' = "ValueError"
    /\ csv_pc' = "error"
    /\ UNCHANGED <<mainVars, csv_file, csv_data, csv_i, csv_tensor>>

NextCSV ==
    \/ CsvRow
    \/ CsvRowRaises
    \/ CsvTensor
    \/ CsvTensorRaises

SpecCSV == InitCSV /\ [][NextCSV]_vars

\* =================================================================== claims
\* acc >= threshold as the claims mean it, on the values in the state.
ThresholdMet ==
    /\ ~training_threshold.inf
    /\ acc.correct * 100 >= training_threshold.pct * acc.total

\* Positions of one ensemble iteration at which training_threshold is the
\* threshold of the current network.
InTraining == pc \in {"epoch", "batch", "eval", "check", "step", "landscape"}

\* len(train_loader): batches of one pass over n samples.
NumBatches(n, size) == (n + size - 1) \div size

\* C1: in train(), the accuracy of a freshly drawn evaluation batch is
\* computed for every batch before that batch's gradient update; the update
\* runs only when the accuracy is below the threshold, and then exactly once;
\* when the accuracy reaches the threshold train() returns with no update for
\* that batch.
C1_EvaluateThenUpdate ==
    InTraining =>
        /\ pc = "check" => batch.evaluated /\ batch.steps = 0
        /\ pc = "step" => batch.evaluated /\ ~ThresholdMet /\ batch.steps = 0
        /\ batch.steps <= 1
        /\ batch.steps = 1 => batch.evaluated /\ ~ThresholdMet /\ ~batch.returned
        /\ batch.returned => batch.evaluated /\ ThresholdMet /\ batch.steps = 0
        /\ (pc = "batch" /\ batch.idx > 0) => batch.steps = 1
        /\ (pc \in {"epoch", "landscape"} /\ batch.idx > 0 /\ ~batch.returned) => batch.steps = 1

\* C1 witness: train() returned early on its second batch, after the first
\* batch had received its update.
C1_Witness ==
    /\ pc = "epoch"
    /\ batch.returned
    /\ batch.idx = 2
    /\ model.steps >= 1

\* C2: once the early-stop check has fired for a model, no optimizer step is
\* applied to that model afterwards, in this epoch or a later one.
C2_NoUpdateAfterStop ==
    [][(model.stopped /\ model'.stopped) => model'.steps = model.steps]_vars

\* args.training_threshold as the claim reads it: the scalar for every
\* iteration, or entry i of the sequence, the last one beyond its end.
ClaimedThreshold(tt, i) ==
    IF ~tt.islist THEN tt.items[1]
    ELSE IF i < Len(tt.items) THEN tt.items[i + 1]
    ELSE tt.items[Len(tt.items)]

\* C3: the threshold of iteration `it` is resolved for every configuration
\* form, the scalar default included: resolution never fails, and gives the
\* scalar, or entry `it` of the sequence clamped to its last entry.
C3_ThresholdResolved ==
    /\ error # "TypeError"
    /\ InTraining => training_threshold = ClaimedThreshold(args.training_threshold, it)

\* C4: no sample can be drawn both by the landscape loader and by the
\* training or the evaluation loader.
C4_LandscapeSplitDisjoint ==
    landscape_loader \cap (train_loader \cup evaluation_loader) = {}

\* C5: with a threshold of 0 the early-stop check fires on the first batch of
\* every call of train(): no batch but the first is drawn, no optimizer step
\* is applied, and after all epochs the parameters are the initial ones.
C5_ZeroThresholdNoUpdate ==
    (InTraining /\ training_threshold = Finite(0)) =>
        /\ model.steps = 0
        /\ pc # "step"
        /\ batch.idx <= 1
        /\ (pc \in {"epoch", "landscape"} /\ epoch > 1) => batch.returned /\ model.stopped

\* C5 witness: two epochs were run with threshold 0 on a network that
\* classifies no sample correctly, and training is over.
C5_Witness ==
    /\ pc = "landscape"
    /\ training_threshold = Finite(0)
    /\ args.epochs >= 2
    /\ model.fit = {}
    /\ model.stopped
    /\ model.steps = 0

\* C6: with a threshold of +infinity the early-stop check never fires: every
\* call of train() runs through all batches with one optimizer step each and
\* returns after the last one, so a model has had epochs x batches steps when
\* its training is over.
C6_InfThresholdAllBatches ==
    (InTraining /\ training_threshold = Inf) =>
        LET nb == NumBatches(Cardinality(dataset), args.batch_size)
        IN  /\ ~model.stopped
            /\ ~batch.returned
            /\ pc = "epoch" => model.steps = (epoch - 1) * nb
            /\ pc = "landscape" => model.steps = args.epochs * nb
            /\ pc \in {"batch", "eval", "check", "step"} =>
                   model.steps = (epoch - 1) * nb + batch.idx - (IF pc = "batch" THEN 0 ELSE 1)

\* C6 witness: training with threshold +infinity is over after two epochs of
\* two batches each.
C6_Witness ==
    /\ pc = "landscape"
    /\ training_threshold = Inf
    /\ args.epochs >= 2
    /\ NumBatches(Cardinality(dataset), args.batch_size) >= 2
    /\ model.steps = 2 * args.epochs

\* Every row of `rows` has the same number of cells.
SameWidth(rows) == \A a, b \in 1..Len(rows) : Len(rows[a]) = Len(rows[b])

\* Every cell after the header row parses as a float.
AllNumeric(file) ==
    \A a \in 2..Len(file) : \A j \in 1..Len(file[a]) : IsFloat(file[a][j].s)

\* The floats of the rows after the header.
Parsed(file) ==
    [a \in 1..Len(DataOf(file)) |->
        [j \in 1..Len(DataOf(file)[a]) |-> FloatOf(DataOf(file)[a][j].s)]]

\* C7 as stated: construction succeeds only when all rows, the header
\* included, have the same width and every non-header cell is numeric, and a
\* failed construction leaves no dataset.
C7_FailsOnAnyWidthMismatch ==
    /\ csv_pc = "done" => SameWidth(csv_file) /\ AllNumeric(csv_file)
    /\ csv_pc = "error" => ~csv_tensor.set

\* C7 amended: construction succeeds only when all rows after the header have
\* the same width and every non-header cell is numeric (the width of the
\* header row is not checked); the dataset then holds exactly the parsed
\* rows, and a failed construction leaves no dataset.
C7_FailsOnDataWidthMismatch ==
    /\ csv_pc = "done" =>
          /\ SameWidth(DataOf(csv_file))
          /\ AllNumeric(csv_file)
          /\ csv_tensor = Tensor(Parsed(csv_file))
    /\ csv_pc # "done" => csv_tensor = NoTensor
    /\ csv_pc = "error" <=> csv_error # ""

\* C7 witness: a file whose cells are all numeric but whose data rows differ
\* in width was rejected at the end of construction.
C7_Witness ==
    /\ csv_pc = "error"
    /\ csv_i = Len(csv_file)
    /\ AllNumeric(csv_file)
    /\ ~SameWidth(DataOf(csv_file))
    /\ ~csv_tensor.set

\* The (layer, dimension) pairs a command line asks for, as file names.
RequestedFiles ==
    {FileName(layer, dim) : layer \in 0..(args.n - 1), dim \in 0..(args.maxdim - 1)}

\* C8: a run with iterations=1 and CSV mode on whose collaborators do not
\* fail ends with exactly one CSV file per requested (layer, dimension) pair,
\* distinct pairs under distinct names.
C8_OneFilePerPair ==
    (/\ args.iterations = 1
     /\ args.save_csv
     /\ pc = "done" \/ (pc = "error" /\ error # "LandscapeError")) =>
        /\ files = RequestedFiles
        /\ Cardinality(files) = args.n * args.maxdim

\* C9: iterations run in order 0..iterations-1 and each appends exactly one
\* landscape, that of its own network; averaging and writing happen only
\* after all iterations, with `iterations` landscapes in the list; a run that
\* aborts averages nothing and writes no CSV file and no blob.
C9_IterationsInOrder ==
    /\ it <= args.iterations
    /\ Len(landscapes_per_network) = it
    /\ \A k \in 1..Len(landscapes_per_network) :
          landscapes_per_network[k] = [layer \in 1..args.n |-> [dim \in 1..args.maxdim |-> k - 1]]
    /\ pc \in {"average", "write_csv", "write_blob", "done"} =>
          /\ it = args.iterations
          /\ Len(landscapes_per_network) = args.iterations
          /\ error = ""
    /\ pc \notin {"write_csv", "write_blob", "done"} => landscape_averages = <<>>
    /\ pc \notin {"write_blob", "done"} => files = {}
    /\ pc # "done" => ~blob
    /\ pc = "error" <=> error # ""

\* C9 witness: the second iteration aborted after the first had appended its
\* landscape; nothing was averaged or written.
C9_Witness ==
    /\ pc = "error"
    /\ it = 1
    /\ Len(landscapes_per_network) = 1
    /\ landscape_averages = <<>>
    /\ files = {}
    /\ ~blob

\* C10: whenever evaluate_once runs its forward pass from train(), the model
\* is in evaluation mode, and the check leaves the mode as it found it.
C10_CheckInEvalMode ==
    /\ batch.evaluated => ~batch.eval_training
    /\ pc = "check" => model.training = batch.eval_training

====
